---- MODULE Spec2Model ----
(***************************************************************************)
(* Model of volume_encryption.py: main() migrates every volume attached to *)
(* one EC2 instance to an encrypted replacement.  The remote control plane *)
(* (instance, volumes, snapshots) is part of the state; every boto3 call   *)
(* or waiter of main() is one step of the program counter pc.              *)
(***************************************************************************)
EXTENDS Integers, Sequences, FiniteSets, TLC

\* ------------------------------------------------------------------ bounds
MaxVols == 2    \* volumes attached to the instance when the first run begins
MaxRuns == 2    \* invocations of main() against the same instance

\* Device names of the block device mappings (one per attached volume).
DeviceNames == <<"/dev/sda1", "/dev/sdf", "/dev/sdg", "/dev/sdh", "/dev/sdi">>
NoDevice == "none"

\* EC2 instance state codes (instance.state['Code']).
PENDING == 0
RUNNING == 16
SHUTTING_DOWN == 32
TERMINATED == 48
STOPPING == 64
STOPPED == 80
StateCodes == {PENDING, RUNNING, SHUTTING_DOWN, TERMINATED, STOPPING, STOPPED}

\* line 103
instance_exit_states == {0, 32, 48}

VARIABLES
    \* remote control plane
    inst_exists,        \* the instance id resolves
    istate,             \* lifecycle state code of the instance
    placement,          \* instance.placement['AvailabilityZone']
    vols,               \* volume id (index) ->
                        \*   [exists, encrypted, dev, dot, vtype, az, snap]
    snaps,              \* snapshot id (index) -> [exists, encrypted, kms, src, completed]
    \* arguments and locals of main()
    customer_master_key,
    pc,
    state_cache,        \* instance.state as cached by the boto3 resource (-1: not loaded)
    all_mappings,
    volumes,
    idx,                \* position of the loops over volumes / volume_data
    current_volume_data,
    snapshot,
    snapshot_encrypted,
    volume_encrypted,
    volume_data,
    outcome,
    \* waiters: their config attributes, and the polls made by a wait that
    \* gave up
    waiter_instance_stopped,
    waiter_snapshot_complete,
    polls,
    \* history of the run
    calls,              \* calls issued and wait results of this run, in order
    start_istate,       \* remote state when this run began
    start_vols,
    start_snaps,
    run,
    prev_outcome

remote == <<inst_exists, istate, placement, vols, snaps>>
locals == <<state_cache, all_mappings, volumes, idx, current_volume_data,
            snapshot, snapshot_encrypted, volume_encrypted, volume_data>>
args == <<customer_master_key>>
waiters == <<waiter_instance_stopped, waiter_snapshot_complete, polls>>
history == <<start_istate, start_vols, start_snaps, run, prev_outcome>>
vars == <<inst_exists, istate, placement, vols, snaps, customer_master_key, pc,
          state_cache, all_mappings, volumes, idx, current_volume_data,
          snapshot, snapshot_encrypted, volume_encrypted, volume_data, outcome,
          waiter_instance_stopped, waiter_snapshot_complete, polls, calls,
          start_istate, start_vols, start_snaps, run, prev_outcome>>

\* --customer_master_key (line 25); "" when the option is absent
KeyArgs == {"", "cmk"}
DefaultKey == "aws/ebs"
NoKey == "-"

\* EBS volume types of the attached volumes, and availability zones
VolumeTypes == {"gp2", "io1"}
Zones == {"us-east-1a", "us-east-1b"}

\* attempt budgets: the waiters' default (comment at line 114), and the values
\* assigned at lines 115 and 133
DefaultMaxAttempts == 40
StoppedMaxAttempts == 80
SnapshotMaxAttempts == 120
\* an attribute that was never assigned
Unset == 0

\* ------------------------------------------------------------------ helpers
NoData == [volume |-> 0, DeleteOnTermination |-> FALSE, DeviceName |-> NoDevice]

Call(op, id, dev) == [op |-> op, id |-> id, dev |-> dev]

MutatingOps == {"stop", "start", "create_snapshot", "copy", "create_volume",
                "detach_volume", "attach_volume", "modify_attribute",
                "delete_snapshot", "delete_volume"}

IsMutating(c) == c.op \in MutatingOps

\* ids of the volumes attached to the instance, ascending
Attached(vs) == {i \in 1..Len(vs) : vs[i].exists /\ vs[i].dev # NoDevice}

RECURSIVE SeqOfSet(_)
SeqOfSet(S) ==
    IF S = {} THEN <<>>
    ELSE LET m == CHOOSE x \in S : \A y \in S : x <= y
         IN <<m>> \o SeqOfSet(S \ {m})

\* instance.block_device_mappings, lines 68-76
Mappings(vs) ==
    LET ids == SeqOfSet(Attached(vs))
    IN [k \in 1..Len(ids) |->
          [DeleteOnTermination |-> vs[ids[k]].dot,
           VolumeId |-> ids[k],
           DeviceName |-> vs[ids[k]].dev]]

\* instance.volumes.all(), line 82
VolumesAll(vs) ==
    LET ids == SeqOfSet(Attached(vs))
    IN [k \in 1..Len(ids) |-> [id |-> ids[k], encrypted |-> vs[ids[k]].encrypted]]

\* lines 86-93: the last mapping whose VolumeId is the volume's
RECURSIVE MatchMapping(_, _, _)
MatchMapping(maps, vid, acc) ==
    IF maps = <<>> THEN acc
    ELSE MatchMapping(Tail(maps), vid,
            IF Head(maps).VolumeId = vid
            THEN [volume |-> vid,
                  DeleteOnTermination |-> Head(maps).DeleteOnTermination,
                  DeviceName |-> Head(maps).DeviceName]
            ELSE acc)

\* ------------------------------------------------------------------ initial state
InitVolumes ==
    UNION {[1..n -> [exists : {TRUE}, encrypted : BOOLEAN, dev : {NoDevice},
                     dot : BOOLEAN, vtype : VolumeTypes, az : {""}, snap : {0}]] :
           n \in 0..MaxVols}

Init ==
    /\ inst_exists \in BOOLEAN
    /\ istate \in (IF inst_exists THEN StateCodes ELSE {TERMINATED})
    /\ placement \in (IF inst_exists THEN Zones ELSE {"us-east-1a"})
    /\ \E v \in InitVolumes :
          /\ inst_exists \/ v = <<>>
          /\ vols = [i \in 1..Len(v) |->
                       [v[i] EXCEPT !.dev = DeviceNames[i], !.az = placement]]
    /\ snaps = <<>>
    /\ customer_master_key \in KeyArgs
    /\ pc = "begin"
    /\ state_cache = -1
    /\ all_mappings = <<>>
    /\ volumes = <<>>
    /\ idx = 1
    /\ current_volume_data = NoData
    /\ snapshot = 0
    /\ snapshot_encrypted = 0
    /\ volume_encrypted = 0
    /\ volume_data = <<>>
    /\ outcome = "none"
    /\ waiter_instance_stopped = [max_attempts |-> DefaultMaxAttempts]
    /\ waiter_snapshot_complete = [max_attempts |-> DefaultMaxAttempts,
                                   config_max_attempts |-> Unset]
    /\ polls = 0
    /\ calls = <<>>
    /\ start_istate = istate
    /\ start_vols = vols
    /\ start_snaps = snaps
    /\ run = 1
    /\ prev_outcome = "none"

Exit(o) ==
    /\ pc' = "done"
    /\ outcome' = o

\* ------------------------------------------------------------------ remote calls
\* (bug variant: the state read when the run began is never refreshed)
StateCodeStale == IF state_cache = -1 THEN start_istate ELSE state_cache

\* instance.state: the resource reloads its data when the cache is empty
StateCode == IF state_cache = -1 THEN istate ELSE state_cache

\* (bug variant: the delete call is missing)
DeleteSnapshotMissing(ss, id) == ss

\* snapshot.delete() / snapshot_encrypted.delete()
DeleteSnapshot(ss, id) == [ss EXCEPT ![id].exists = FALSE]

\* (bug variant: the delete call is missing)
DeleteVolumeMissing(vs, id) == vs

\* volume.delete() / volume_encrypted.delete()
DeleteVolume(vs, id) == [vs EXCEPT ![id].exists = FALSE, ![id].dev = NoDevice]

\* (bug variant: the volume is created from the plain snapshot)
VolumeSnapshotPlain == snapshot

\* line 181: VolumeType of ec2.create_volume
CreateVolumeType == "gp2"

\* line 180: SnapshotId of ec2.create_volume
VolumeSnapshot == snapshot_encrypted

\* (bug variant: the rollback deletes `volume` instead of `volume_encrypted`)
RollbackVolumeSource == volumes[idx].id

\* line 203: the volume deleted when the replacement never becomes available
RollbackVolume == volume_encrypted

\* (bug variant: the instance is started at the end of every loop iteration)
AttachCallsAndStart ==
    <<Call("attach_volume", volume_encrypted, current_volume_data.DeviceName),
      Call("start", 0, NoDevice)>>

\* lines 206-209: the calls of the attach step
AttachCalls ==
    <<Call("attach_volume", volume_encrypted, current_volume_data.DeviceName)>>

\* (bug variant: the flag is hard-coded)
ModifyFlagFixed(bdm) == FALSE

\* lines 223-224: the flag passed to modify_attribute
ModifyFlag(bdm) == bdm.DeleteOnTermination

\* the remote effect of a sequence of delete calls
RECURSIVE SnapshotsAfter(_, _)
SnapshotsAfter(ss, cs) ==
    IF cs = <<>> THEN ss
    ELSE SnapshotsAfter(IF Head(cs).op = "delete_snapshot"
                        THEN DeleteSnapshot(ss, Head(cs).id) ELSE ss, Tail(cs))

RECURSIVE VolumesAfter(_, _)
VolumesAfter(vs, cs) ==
    IF cs = <<>> THEN vs
    ELSE VolumesAfter(IF Head(cs).op = "delete_volume"
                      THEN DeleteVolume(vs, Head(cs).id) ELSE vs, Tail(cs))

\* line 142: the handler of the plain snapshot's WaiterError
SnapshotRollback == <<Call("delete_snapshot", snapshot, NoDevice)>>

\* (bug variant: the handler restarts the instance it stopped)
CopyRollbackAndStart ==
    <<Call("delete_snapshot", snapshot, NoDevice),
      Call("delete_snapshot", snapshot_encrypted, NoDevice),
      Call("start", 0, NoDevice)>>

\* lines 174-175: the handler of the encrypted copy's WaiterError
CopyRollback ==
    <<Call("delete_snapshot", snapshot, NoDevice),
      Call("delete_snapshot", snapshot_encrypted, NoDevice)>>

\* lines 201-203: the handler of the replacement volume's WaiterError
AttachRollback ==
    <<Call("delete_snapshot", snapshot, NoDevice),
      Call("delete_snapshot", snapshot_encrypted, NoDevice),
      Call("delete_volume", RollbackVolume, NoDevice)>>

\* (bug variant: the handler cleans up the first migrated volume)
RestartRollbackCleans ==
    IF volume_data = <<>> THEN <<>>
    ELSE <<Call("delete_snapshot", volume_data[1].snapshot, NoDevice),
           Call("delete_snapshot", volume_data[1].snapshot_encrypted, NoDevice)>>

\* lines 238-239: the handler of waiter_instance_running's WaiterError
RestartRollback == <<>>

\* line 115: waiter_instance_stopped.config.max_attempts = 80
SetStoppedBudget(w) == [w EXCEPT !.max_attempts = StoppedMaxAttempts]

\* line 133: waiter_snapshot_complete.config_max_attempts = 120 sets an
\* attribute of the waiter object itself, not config.max_attempts
SetSnapshotBudget(w) == [w EXCEPT !.config_max_attempts = SnapshotMaxAttempts]

\* ------------------------------------------------------------------ main()
\* lines 52-82: check the instance exists, capture mappings and volumes
Begin ==
    /\ pc = "begin"
    /\ IF inst_exists
       THEN /\ all_mappings' = Mappings(vols)
            /\ volumes' = VolumesAll(vols)
            /\ state_cache' = istate
            /\ idx' = 1
            /\ pc' = "loop"
            /\ UNCHANGED outcome
       ELSE /\ Exit("not_found")
            /\ UNCHANGED <<all_mappings, volumes, state_cache, idx>>
    /\ UNCHANGED <<remote, current_volume_data, snapshot, snapshot_encrypted,
                   volume_encrypted, volume_data, calls, args, waiters, history>>

\* lines 83-108: next volume; exit if it is encrypted or the instance is
\* pending, shutting-down or terminated
CheckVolume ==
    /\ pc = "loop"
    /\ idx <= Len(volumes)
    /\ current_volume_data' = MatchMapping(all_mappings, volumes[idx].id, NoData)
    /\ IF volumes[idx].encrypted
       THEN /\ Exit("already_encrypted")
            /\ UNCHANGED state_cache
       ELSE /\ state_cache' = StateCode
            /\ IF StateCode \in instance_exit_states
               THEN Exit("invalid_state")
               ELSE pc' = "stop" /\ UNCHANGED outcome
    /\ UNCHANGED <<remote, all_mappings, volumes, idx, snapshot, snapshot_encrypted,
                   volume_encrypted, volume_data, calls, args, waiters, history>>

\* lines 110-112: stop the instance if it is running (`is 16` compares a small
\* int, which CPython interns: it is true exactly when the code equals 16)
StopInstance ==
    /\ pc = "stop"
    /\ IF StateCode = RUNNING
       THEN /\ istate' = (IF istate \in {RUNNING, PENDING} THEN STOPPING ELSE istate)
            /\ calls' = Append(calls, Call("stop", 0, NoDevice))
            /\ state_cache' = -1
       ELSE UNCHANGED <<istate, calls, state_cache>>
    /\ pc' = "wait_stopped"
    /\ UNCHANGED <<inst_exists, placement, vols, snaps, all_mappings, volumes, idx,
                   current_volume_data, snapshot, snapshot_encrypted,
                   volume_encrypted, volume_data, outcome, args, waiters, history>>

\* lines 114-124: waiter_instance_stopped
WaitStopped ==
    /\ pc = "wait_stopped"
    /\ waiter_instance_stopped' = SetStoppedBudget(waiter_instance_stopped)
    /\ \/ /\ istate \in {STOPPING, STOPPED}
          /\ istate' = STOPPED
          /\ calls' = Append(calls, Call("stopped_ok", 0, NoDevice))
          /\ pc' = "snapshot"
          /\ UNCHANGED <<outcome, polls>>
       \/ /\ istate # STOPPED
          /\ calls' = Append(calls, Call("stopped_timeout", 0, NoDevice))
          /\ polls' = waiter_instance_stopped'.max_attempts
          /\ Exit("stop_timeout")
          /\ UNCHANGED istate
    /\ UNCHANGED <<inst_exists, placement, vols, snaps, locals, args,
                   waiter_snapshot_complete, history>>

\* lines 126-131: ec2.create_snapshot
CreateSnapshot ==
    /\ pc = "snapshot"
    /\ snaps' = Append(snaps, [exists |-> TRUE, encrypted |-> FALSE, kms |-> NoKey,
                               src |-> volumes[idx].id, completed |-> FALSE])
    /\ snapshot' = Len(snaps) + 1
    /\ calls' = Append(calls, Call("create_snapshot", Len(snaps) + 1, NoDevice))
    /\ pc' = "wait_snapshot"
    /\ UNCHANGED <<inst_exists, placement, istate, vols, state_cache, all_mappings, volumes,
                   idx, current_volume_data, snapshot_encrypted, volume_encrypted,
                   volume_data, outcome, args, waiters, history>>

\* lines 133-143: waiter_snapshot_complete on the plain snapshot
WaitSnapshot ==
    /\ pc = "wait_snapshot"
    /\ waiter_snapshot_complete' = SetSnapshotBudget(waiter_snapshot_complete)
    /\ \/ /\ snaps' = [snaps EXCEPT ![snapshot].completed = TRUE]
          /\ calls' = Append(calls, Call("snapshot_ok", snapshot, NoDevice))
          /\ pc' = "copy"
          /\ UNCHANGED <<outcome, polls>>
       \/ /\ snaps' = SnapshotsAfter(snaps, SnapshotRollback)
          /\ calls' = Append(calls, Call("snapshot_timeout", snapshot, NoDevice))
                          \o SnapshotRollback
          /\ polls' = waiter_snapshot_complete'.max_attempts
          /\ Exit("snapshot_timeout")
    /\ UNCHANGED <<inst_exists, placement, istate, vols, locals, args,
                   waiter_instance_stopped, history>>

\* lines 145-165: snapshot.copy(Encrypted=True)
CopySnapshot ==
    /\ pc = "copy"
    /\ snaps' = Append(snaps, [exists |-> TRUE, encrypted |-> TRUE,
                               kms |-> (IF customer_master_key # ""
                                        THEN customer_master_key ELSE DefaultKey),
                               src |-> snaps[snapshot].src, completed |-> FALSE])
    /\ snapshot_encrypted' = Len(snaps) + 1
    /\ calls' = Append(calls, Call("copy", Len(snaps) + 1, NoDevice))
    /\ pc' = "wait_copy"
    /\ UNCHANGED <<inst_exists, placement, istate, vols, state_cache, all_mappings, volumes,
                   idx, current_volume_data, snapshot, volume_encrypted,
                   volume_data, outcome, args, waiters, history>>

\* lines 167-176: waiter_snapshot_complete on the encrypted copy
WaitCopy ==
    /\ pc = "wait_copy"
    /\ \/ /\ snaps' = [snaps EXCEPT ![snapshot_encrypted].completed = TRUE]
          /\ calls' = Append(calls, Call("copy_ok", snapshot_encrypted, NoDevice))
          /\ pc' = "create_volume"
          /\ UNCHANGED <<outcome, polls>>
       \/ /\ snaps' = SnapshotsAfter(snaps, CopyRollback)
          /\ calls' = Append(calls, Call("copy_timeout", snapshot_encrypted, NoDevice))
                          \o CopyRollback
          /\ polls' = waiter_snapshot_complete.max_attempts
          /\ Exit("copy_timeout")
    /\ UNCHANGED <<inst_exists, placement, istate, vols, locals, args,
                   waiter_instance_stopped, waiter_snapshot_complete, history>>

\* lines 178-183: ec2.create_volume from the encrypted snapshot
CreateVolume ==
    /\ pc = "create_volume"
    /\ vols' = Append(vols, [exists |-> TRUE,
                             encrypted |-> snaps[VolumeSnapshot].encrypted,
                             dev |-> NoDevice, dot |-> FALSE,
                             vtype |-> CreateVolumeType, az |-> placement,
                             snap |-> VolumeSnapshot])
    /\ volume_encrypted' = Len(vols) + 1
    /\ calls' = Append(calls, Call("create_volume", Len(vols) + 1, NoDevice))
    /\ pc' = "detach"
    /\ UNCHANGED <<inst_exists, placement, istate, snaps, state_cache, all_mappings, volumes,
                   idx, current_volume_data, snapshot, snapshot_encrypted,
                   volume_data, outcome, args, waiters, history>>

\* lines 185-190: instance.detach_volume of the source volume
DetachVolume ==
    /\ pc = "detach"
    /\ vols' = [vols EXCEPT ![volumes[idx].id].dev = NoDevice]
    /\ calls' = Append(calls, Call("detach_volume", volumes[idx].id,
                                   current_volume_data.DeviceName))
    /\ state_cache' = -1
    /\ pc' = "wait_available"
    /\ UNCHANGED <<inst_exists, placement, istate, snaps, all_mappings, volumes, idx,
                   current_volume_data, snapshot, snapshot_encrypted,
                   volume_encrypted, volume_data, outcome, args, waiters, history>>

\* lines 192-204: waiter_volume_available on the replacement volume
WaitAvailable ==
    /\ pc = "wait_available"
    /\ \/ /\ calls' = Append(calls, Call("available_ok", volume_encrypted, NoDevice))
          /\ pc' = "attach"
          /\ UNCHANGED <<vols, snaps, outcome, polls>>
       \/ /\ snaps' = SnapshotsAfter(snaps, AttachRollback)
          /\ vols' = VolumesAfter(vols, AttachRollback)
          /\ calls' = Append(calls, Call("available_timeout", volume_encrypted, NoDevice))
                          \o AttachRollback
          /\ polls' = DefaultMaxAttempts
          /\ Exit("attach_timeout")
    /\ UNCHANGED <<inst_exists, placement, istate, locals, args,
                   waiter_instance_stopped, waiter_snapshot_complete, history>>

\* lines 206-213: instance.attach_volume at the captured device name, then
\* record the volume in volume_data
AttachVolume ==
    /\ pc = "attach"
    /\ vols' = [vols EXCEPT ![volume_encrypted].dev = current_volume_data.DeviceName,
                            ![volume_encrypted].dot = FALSE]
    /\ calls' = calls \o AttachCalls
    /\ state_cache' = -1
    /\ volume_data' = Append(volume_data,
            [volume |-> current_volume_data.volume,
             DeleteOnTermination |-> current_volume_data.DeleteOnTermination,
             DeviceName |-> current_volume_data.DeviceName,
             snapshot |-> snapshot,
             snapshot_encrypted |-> snapshot_encrypted])
    /\ idx' = idx + 1
    /\ pc' = "loop"
    /\ UNCHANGED <<inst_exists, placement, istate, snaps, all_mappings, volumes,
                   current_volume_data, snapshot, snapshot_encrypted,
                   volume_encrypted, outcome, args, waiters, history>>

\* line 83 -> line 215: the loop over volumes is exhausted
LoopEnd ==
    /\ pc = "loop"
    /\ idx > Len(volumes)
    /\ idx' = 1
    /\ pc' = "modify"
    /\ UNCHANGED <<remote, state_cache, all_mappings, volumes, current_volume_data,
                   snapshot, snapshot_encrypted, volume_encrypted, volume_data,
                   outcome, calls, args, waiters, history>>

\* lines 215-228: instance.modify_attribute for one entry of volume_data
ModifyAttribute ==
    /\ pc = "modify"
    /\ idx <= Len(volume_data)
    /\ LET bdm == volume_data[idx]
       IN /\ vols' = [i \in 1..Len(vols) |->
                        IF vols[i].exists /\ vols[i].dev = bdm.DeviceName
                        THEN [vols[i] EXCEPT !.dot = ModifyFlag(bdm)]
                        ELSE vols[i]]
          /\ calls' = Append(calls, Call("modify_attribute", 0, bdm.DeviceName))
    /\ state_cache' = -1
    /\ idx' = idx + 1
    /\ UNCHANGED <<inst_exists, placement, istate, snaps, pc, all_mappings, volumes,
                   current_volume_data, snapshot, snapshot_encrypted,
                   volume_encrypted, volume_data, outcome, args, waiters, history>>

\* (bug variant: the instance is started only if it was running at the outset)
StartInstanceIfWasRunning ==
    /\ pc = "modify"
    /\ idx > Len(volume_data)
    /\ IF start_istate = RUNNING
       THEN /\ calls' = Append(calls, Call("start", 0, NoDevice))
            /\ state_cache' = -1
            /\ istate' = (IF istate = STOPPED THEN PENDING ELSE istate)
            /\ pc' = "wait_running"
       ELSE /\ pc' = "cleanup"
            /\ UNCHANGED <<calls, state_cache, istate>>
    /\ UNCHANGED <<inst_exists, placement, vols, snaps, all_mappings, volumes, idx,
                   current_volume_data, snapshot, snapshot_encrypted,
                   volume_encrypted, volume_data, outcome, args, waiters, history>>

\* line 230: instance.start(); EC2 rejects it unless the instance is stopped,
\* pending or running
StartInstance ==
    /\ pc = "modify"
    /\ idx > Len(volume_data)
    /\ calls' = Append(calls, Call("start", 0, NoDevice))
    /\ state_cache' = -1
    /\ IF istate \in {STOPPED, PENDING, RUNNING}
       THEN /\ istate' = (IF istate = STOPPED THEN PENDING ELSE istate)
            /\ pc' = "wait_running"
            /\ UNCHANGED outcome
       ELSE /\ Exit("provider_error")
            /\ UNCHANGED istate
    /\ UNCHANGED <<inst_exists, placement, vols, snaps, all_mappings, volumes, idx,
                   current_volume_data, snapshot, snapshot_encrypted,
                   volume_encrypted, volume_data, args, waiters, history>>

\* lines 232-239: waiter_instance_running
WaitRunning ==
    /\ pc = "wait_running"
    /\ \/ /\ istate \in {PENDING, RUNNING}
          /\ istate' = RUNNING
          /\ calls' = Append(calls, Call("running_ok", 0, NoDevice))
          /\ idx' = 1
          /\ pc' = "cleanup"
          /\ UNCHANGED <<outcome, polls, vols, snaps>>
       \/ /\ istate # RUNNING
          /\ snaps' = SnapshotsAfter(snaps, RestartRollback)
          /\ vols' = VolumesAfter(vols, RestartRollback)
          /\ calls' = Append(calls, Call("running_timeout", 0, NoDevice))
                          \o RestartRollback
          /\ polls' = DefaultMaxAttempts
          /\ Exit("restart_timeout")
          /\ UNCHANGED <<istate, idx>>
    /\ UNCHANGED <<inst_exists, placement, state_cache, all_mappings, volumes,
                   current_volume_data, snapshot, snapshot_encrypted,
                   volume_encrypted, volume_data, args,
                   waiter_instance_stopped, waiter_snapshot_complete, history>>

\* lines 243-249: delete both snapshots and the original volume of one entry
Cleanup ==
    /\ pc = "cleanup"
    /\ idx <= Len(volume_data)
    /\ LET cleanup == volume_data[idx]
       IN /\ snaps' = DeleteSnapshot(DeleteSnapshot(snaps, cleanup.snapshot),
                                     cleanup.snapshot_encrypted)
          /\ vols' = DeleteVolume(vols, cleanup.volume)
          /\ calls' = calls \o <<Call("delete_snapshot", cleanup.snapshot, NoDevice),
                                  Call("delete_snapshot", cleanup.snapshot_encrypted, NoDevice),
                                  Call("delete_volume", cleanup.volume, NoDevice)>>
    /\ idx' = idx + 1
    /\ UNCHANGED <<inst_exists, placement, istate, pc, state_cache, all_mappings, volumes,
                   current_volume_data, snapshot, snapshot_encrypted,
                   volume_encrypted, volume_data, outcome, args, waiters, history>>

\* line 251: 'Encryption finished'
Finish ==
    /\ pc = "cleanup"
    /\ idx > Len(volume_data)
    /\ Exit("finished")
    /\ UNCHANGED <<remote, locals, calls, args, waiters, history>>

\* the program is invoked again on the same instance (line 253)
Rerun ==
    /\ pc = "done"
    /\ run < MaxRuns
    /\ run' = run + 1
    /\ prev_outcome' = outcome
    /\ start_istate' = istate
    /\ start_vols' = vols
    /\ start_snaps' = snaps
    /\ customer_master_key' \in KeyArgs
    /\ pc' = "begin"
    /\ outcome' = "none"
    /\ calls' = <<>>
    /\ state_cache' = -1
    /\ all_mappings' = <<>>
    /\ volumes' = <<>>
    /\ idx' = 1
    /\ current_volume_data' = NoData
    /\ snapshot' = 0
    /\ snapshot_encrypted' = 0
    /\ volume_encrypted' = 0
    /\ volume_data' = <<>>
    /\ waiter_instance_stopped' = [max_attempts |-> DefaultMaxAttempts]
    /\ waiter_snapshot_complete' = [max_attempts |-> DefaultMaxAttempts,
                                    config_max_attempts |-> Unset]
    /\ polls' = 0
    /\ UNCHANGED remote

Next ==
    \/ Begin
    \/ CheckVolume
    \/ StopInstance
    \/ WaitStopped
    \/ CreateSnapshot
    \/ WaitSnapshot
    \/ CopySnapshot
    \/ WaitCopy
    \/ CreateVolume
    \/ DetachVolume
    \/ WaitAvailable
    \/ AttachVolume
    \/ LoopEnd
    \/ ModifyAttribute
    \/ StartInstance
    \/ WaitRunning
    \/ Cleanup
    \/ Finish
    \/ Rerun

Spec == Init /\ [][Next]_vars

\* ------------------------------------------------------------------ provider errors
\* lines 147-209: snapshot.copy, ec2.create_volume, instance.detach_volume or
\* instance.attach_volume raises a ClientError at once; no handler encloses
\* these calls, so the exception ends main()
CallFails ==
    /\ pc \in {"copy", "create_volume", "detach", "attach"}
    /\ calls' = Append(calls, Call("error:" \o pc, 0, NoDevice))
    /\ Exit("client_error")
    /\ UNCHANGED <<remote, locals, args, waiters, history>>

\* lines 141-143, 173-176, 200-204: the wait gives up and one of the handler's
\* delete calls raises a ClientError; the deletes before it have been made,
\* the ones after it and sys.exit are not reached
RollbackFails ==
    /\ pc \in {"wait_snapshot", "wait_copy", "wait_available"}
    /\ LET rb == CASE pc = "wait_snapshot" -> SnapshotRollback
                   [] pc = "wait_copy" -> CopyRollback
                   [] pc = "wait_available" -> AttachRollback
           w == IF pc = "wait_snapshot"
                THEN SetSnapshotBudget(waiter_snapshot_complete)
                ELSE waiter_snapshot_complete
       IN \E k \in 0..(Len(rb) - 1) :
            /\ snaps' = SnapshotsAfter(snaps, SubSeq(rb, 1, k))
            /\ vols' = VolumesAfter(vols, SubSeq(rb, 1, k))
            /\ calls' = Append(calls, Call(pc \o ":timeout", 0, NoDevice))
                            \o SubSeq(rb, 1, k)
                            \o <<Call("error:" \o rb[k + 1].op, rb[k + 1].id, NoDevice)>>
            /\ waiter_snapshot_complete' = w
            /\ polls' = (IF pc = "wait_available" THEN DefaultMaxAttempts
                         ELSE w.max_attempts)
    /\ Exit("client_error")
    /\ UNCHANGED <<inst_exists, placement, istate, locals, args,
                   waiter_instance_stopped, history>>

NextErr ==
    \/ Next
    \/ CallFails
    \/ RollbackFails

SpecErr == Init /\ [][NextErr]_vars

\* ------------------------------------------------------------------ properties
\* what the run found and what it created
StartAttached == Attached(start_vols)
StartUnencrypted == {i \in StartAttached : ~start_vols[i].encrypted}
AllUnencrypted == StartAttached # {} /\ StartUnencrypted = StartAttached
NewSnaps == (Len(start_snaps) + 1)..Len(snaps)
NewVols == (Len(start_vols) + 1)..Len(vols)
CallsOf(op) == {i \in 1..Len(calls) : calls[i].op = op}
MutatingCalls == {i \in 1..Len(calls) : IsMutating(calls[i])}
DeleteCalls == CallsOf("delete_snapshot") \cup CallsOf("delete_volume")
Finished == pc = "done" /\ outcome = "finished"
\* the replacement attached where source volume s was
ReplacementsOf(s) ==
    {r \in NewVols : vols[r].exists /\ vols[r].dev = start_vols[s].dev}

\* C1: with exactly one attached, unencrypted volume, a run that ends in
\* success leaves the source volume deleted, exactly one replacement volume,
\* attached at the source's device name, and no snapshot of the run existing.
C1_SingleVolumeSuccess ==
    (Finished /\ AllUnencrypted /\ Cardinality(StartAttached) = 1) =>
        \A s \in StartAttached :
            /\ ~vols[s].exists
            /\ Cardinality({r \in NewVols : vols[r].exists}) = 1
            /\ Cardinality(ReplacementsOf(s)) = 1
            /\ Attached(vols) = ReplacementsOf(s)
            /\ \A k \in NewSnaps : ~snaps[k].exists

C1_Witness ==
    /\ Finished /\ AllUnencrypted /\ Cardinality(StartAttached) = 1
    /\ Cardinality(NewSnaps) = 2

\* C2: a delete call on a volume that existed when the run began comes only
\* after the attach of its replacement and after the successful wait for the
\* instance to be running; a run that ends in a failure has deleted no such
\* volume.
C2_SourceDeletedLast ==
    /\ \A i \in CallsOf("delete_volume") :
          calls[i].id <= Len(start_vols) =>
             \E j \in CallsOf("running_ok") :
                /\ j < i
                /\ \E k \in CallsOf("attach_volume") :
                      /\ k < j
                      /\ calls[k].id \in NewVols
                      /\ calls[k].dev = start_vols[calls[i].id].dev
    /\ (pc = "done" /\ outcome # "finished") =>
          \A s \in 1..Len(start_vols) : vols[s].exists = start_vols[s].exists

C2_Witness ==
    \E i \in CallsOf("delete_volume") :
        calls[i].id <= Len(start_vols) /\ ~vols[calls[i].id].exists

\* C3: on an instance with no attached volume, or whose attached volumes are
\* all encrypted, the run issues no mutating call and ends informationally.
C3_NothingToDoNoMutation ==
    (inst_exists /\ StartUnencrypted = {}) =>
        /\ MutatingCalls = {}
        /\ pc = "done" => outcome \in {"already_encrypted", "finished"}

\* the run has gone past line 230, the start call after the last swap
PastStart ==
    \/ pc \in {"wait_running", "cleanup"}
    \/ pc = "done" /\ outcome \in {"finished", "restart_timeout", "provider_error"}

\* C4 (as stated): once all volumes are swapped, a start call is issued if
\* and only if the instance was running when the run began.
C4_StartedIffWasRunning ==
    (PastStart /\ volume_data # <<>> /\ start_istate \in {RUNNING, STOPPED}) =>
        (CallsOf("start") # {} <=> start_istate = RUNNING)

\* C4 (amended): once all volumes are swapped, exactly one start call is
\* issued whatever the state of the instance was when the run began; an
\* instance that was stopped beforehand is started as well and is running
\* when the clean-up begins.
C4_AlwaysStarted ==
    /\ PastStart => Cardinality(CallsOf("start")) = 1
    /\ (pc = "cleanup" \/ Finished) => istate = RUNNING

C4_Witness ==
    /\ Finished
    /\ start_istate = STOPPED
    /\ volume_data # <<>>
    /\ CallsOf("start") # {}
    /\ istate = RUNNING

\* C5: with N attached volumes, all unencrypted, a successful run creates
\* exactly N replacement volumes; each source volume has exactly one
\* replacement, attached at the source's device name and carrying the
\* source's delete-on-termination flag.
C5_ReplacementsPreserveMapping ==
    (Finished /\ AllUnencrypted) =>
        /\ Cardinality(NewVols) = Cardinality(StartAttached)
        /\ Cardinality(CallsOf("create_volume")) = Cardinality(StartAttached)
        /\ \A s \in StartAttached :
              /\ Cardinality(ReplacementsOf(s)) = 1
              /\ \A r \in ReplacementsOf(s) :
                    /\ vols[r].dot = start_vols[s].dot
                    /\ vols[r].encrypted
        /\ Attached(vols) = UNION {ReplacementsOf(s) : s \in StartAttached}

C5_Witness ==
    /\ Finished /\ AllUnencrypted
    /\ Cardinality(StartAttached) >= 2
    /\ \E s, t \in StartAttached : start_vols[s].dot /\ ~start_vols[t].dot

\* C6: the start call is issued at most once in a run, exactly once in a run
\* that migrates its N volumes to the end, and only after the replacement of
\* every one of the N volumes has been attached.
C6_StartOnceAfterAllAttached ==
    /\ Cardinality(CallsOf("start")) <= 1
    /\ (Finished \/ (pc = "done" /\ outcome = "restart_timeout")) =>
          Cardinality(CallsOf("start")) = 1
    /\ \A i \in CallsOf("start") :
          \A s \in StartAttached :
             \E j \in CallsOf("attach_volume") :
                j < i /\ calls[j].dev = start_vols[s].dev

C6_Witness ==
    /\ Finished /\ AllUnencrypted
    /\ Cardinality(StartAttached) >= 2
    /\ Cardinality(CallsOf("start")) = 1

\* the calls after the last call of the given kind
LastOf(S) == CHOOSE x \in S : \A y \in S : y <= x
CallsSince(op) == SubSeq(calls, LastOf(CallsOf(op)) + 1, Len(calls))

\* C7: when the wait for the plain snapshot times out, nothing is copied,
\* created, attached or detached for that volume, the plain snapshot is the
\* only resource the run deletes, and the source volume is still attached at
\* its device name and exists when the run ends.
C7_SnapshotTimeout ==
    (pc = "done" /\ outcome = "snapshot_timeout") =>
        LET v == volumes[idx].id
        IN /\ CallsSince("create_snapshot") =
                 <<Call("snapshot_timeout", snapshot, NoDevice),
                   Call("delete_snapshot", snapshot, NoDevice)>>
           /\ Cardinality(DeleteCalls) = 1
           /\ ~snaps[snapshot].exists
           /\ {k \in NewSnaps : snaps[k].src = v} = {snapshot}
           /\ \A r \in NewVols : vols[r].dev # start_vols[v].dev
           /\ \A s \in 1..Len(start_vols) : vols[s].exists = start_vols[s].exists
           /\ vols[v].exists
           /\ vols[v].dev = start_vols[v].dev
           /\ vols[v].dev = current_volume_data.DeviceName

C7_Witness ==
    /\ pc = "done" /\ outcome = "snapshot_timeout"
    /\ idx = 2
    /\ ~snaps[snapshot].exists

\* C8: when the wait for the replacement volume to become available times
\* out, the source volume is still attached and exists, and the plain
\* snapshot, the encrypted copy and the replacement volume are deleted.
C8_AttachTimeout ==
    (pc = "done" /\ outcome = "attach_timeout") =>
        LET v == volumes[idx].id
        IN /\ vols[v].exists
           /\ vols[v].dev = start_vols[v].dev
           /\ ~snaps[snapshot].exists
           /\ ~snaps[snapshot_encrypted].exists
           /\ ~vols[volume_encrypted].exists

\* C9: a run on an instance on which the previous run ended in success, and
\* whose attached volumes therefore are encrypted, is an immediate skip: it
\* issues no mutating call, ends at the first volume as already encrypted,
\* and leaves instance, volumes and snapshots as the previous run left them.
C9_RerunIsSkip ==
    (prev_outcome = "finished" /\ StartAttached # {}) =>
        /\ \A s \in StartAttached : start_vols[s].encrypted
        /\ pc \in {"begin", "loop", "done"}
        /\ MutatingCalls = {}
        /\ calls = <<>>
        /\ istate = start_istate /\ vols = start_vols /\ snaps = start_snaps
        /\ pc = "done" => (outcome = "already_encrypted" /\ idx = 1)

C9_Witness ==
    /\ prev_outcome = "finished"
    /\ Cardinality(StartAttached) >= 2
    /\ pc = "done"
    /\ outcome = "already_encrypted"

\* C10: whenever a run ends by its own logic, every snapshot it created has
\* been deleted.
C10_NoSnapshotLeft ==
    pc = "done" => \A k \in NewSnaps : ~snaps[k].exists

\* C11: when the instance is shutting down or terminated as the run begins,
\* the run fails as an invalid state and issues no mutating call, whatever
\* volumes are attached (none included).
C11_TerminalStateNoMutation ==
    (inst_exists /\ start_istate \in {SHUTTING_DOWN, TERMINATED}) =>
        /\ MutatingCalls = {}
        /\ pc = "done" => outcome = "invalid_state"

\* C12: the exits for an encrypted volume or an ineligible instance state are
\* taken only while the run has issued no mutating call.
C12_EarlyExitsBeforeMutation ==
    (pc = "done" /\ outcome \in {"already_encrypted", "invalid_state"}) =>
        MutatingCalls = {}

\* the snapshots and the volume this run created for source volume v
SnapsFor(v) == {k \in NewSnaps : snaps[k].src = v}
VolsFor(v) == {r \in NewVols : vols[r].snap \in SnapsFor(v)}

\* C13: once a resource exists for the volume in flight, a provider error
\* raised at once by the copy, create-volume, detach, attach or a rollback
\* delete call ends the run only after every resource created for that volume
\* (both snapshots, the replacement volume) has been deleted.
C13_ErrorRollsBack ==
    (pc = "done" /\ outcome = "client_error") =>
        /\ \A k \in SnapsFor(volumes[idx].id) : ~snaps[k].exists
        /\ \A r \in VolsFor(volumes[idx].id) : ~vols[r].exists

Rollback == pc = "done" /\ outcome \in {"copy_timeout", "attach_timeout"}

\* C14: a rollback deletes the replacement volume (if created) before the
\* encrypted copy, and the encrypted copy before the plain snapshot.
C14_RollbackReverseOrder ==
    Rollback =>
        /\ \A i, j \in CallsOf("delete_snapshot") :
              (calls[i].id = snapshot_encrypted /\ calls[j].id = snapshot) => i < j
        /\ \A i \in CallsOf("delete_volume") :
              \A j \in CallsOf("delete_snapshot") : i < j

\* C15: when the wait for the instance to be running times out, the run ends
\* without any delete call: every replacement volume is attached, and every
\* source volume and every snapshot of the run still exists.
C15_RestartTimeoutDeletesNothing ==
    (pc = "done" /\ outcome = "restart_timeout") =>
        /\ CallsOf("start") # {}
        /\ DeleteCalls = {}
        /\ \A k \in NewSnaps : snaps[k].exists
        /\ \A s \in 1..Len(start_vols) : vols[s].exists = start_vols[s].exists
        /\ \A r \in NewVols : vols[r].exists
        /\ \A i \in 1..Len(volume_data) :
              \E r \in NewVols : vols[r].dev = volume_data[i].DeviceName

C15_Witness ==
    /\ pc = "done" /\ outcome = "restart_timeout"
    /\ Len(volume_data) >= 2
    /\ Cardinality(NewSnaps) >= 4

\* C16: every replacement volume is created in the instance's availability
\* zone and with the volume type of the source volume it replaces.
C16_ReplacementKeepsTypeAndZone ==
    \A v \in StartAttached :
        \A r \in VolsFor(v) :
            /\ vols[r].az = placement
            /\ vols[r].vtype = start_vols[v].vtype

\* the first wait for the stopped instance is over
WaitedForStop == CallsOf("stopped_ok") \cup CallsOf("stopped_timeout") # {}

C18_FlagReappliedAtExit ==
    pc = "done" =>
        \A i \in 1..Len(volume_data) :
            \A r \in NewVols :
                (vols[r].exists /\ vols[r].dev = volume_data[i].DeviceName) =>
                    vols[r].dot = volume_data[i].DeleteOnTermination

\* C19: a snapshot wait (plain snapshot or encrypted copy) gives up after the
\* 120 attempts set for it, more than the 80 of the wait for the stopped
\* instance, and not after the default 40.
C19_SnapshotWaitBudget ==
    /\ SnapshotMaxAttempts > StoppedMaxAttempts
    /\ (pc = "done" /\ outcome = "stop_timeout") => polls = StoppedMaxAttempts
    /\ (pc = "done" /\ outcome \in {"snapshot_timeout", "copy_timeout"}) =>
          /\ polls = SnapshotMaxAttempts
          /\ polls # DefaultMaxAttempts

\* C20: a run that ends inside the loop over volumes after the instance has
\* been stopped (snapshot, copy or attach timeout, or an encrypted or
\* invalid-state exit at a later volume) has issued no start call, and the
\* instance is stopped when it ends.
C20_NoStartOnLoopFailure ==
    (/\ pc = "done"
     /\ outcome \in {"snapshot_timeout", "copy_timeout", "attach_timeout",
                      "already_encrypted", "invalid_state"}
     /\ CallsOf("stopped_ok") # {}) =>
        /\ CallsOf("start") = {}
        /\ istate = STOPPED

C20_Witness ==
    /\ pc = "done" /\ outcome = "copy_timeout"
    /\ start_istate = RUNNING
    /\ CallsOf("stop") # {}
    /\ istate = STOPPED

====
